---- MODULE Spec2Model ----
(***************************************************************************)
(* State-machine model of chassis/sonic_platform/module.py: the Module     *)
(* class of the Nokia IXR-7250 platform plugin.  One behaviour follows one *)
(* Module object from its construction through any sequence of method     *)
(* calls.  Every method is one action; the outcome of channel_setup and of *)
(* try_grpc (the external collaborators of nokia_common) is an input drawn *)
(* from a small set.                                                       *)
(***************************************************************************)
EXTENDS Integers, Sequences, FiniteSets, TLC

(***************************************************************************)
(* Bounds of the model.                                                    *)
(***************************************************************************)
\* hardware slots are 0..MaxSlot
MaxSlot == 1
\* power values handed to set_maximum_consumed_power are 0..MaxPower
MaxPower == 1
\* a GetFabricPcieInfo response carries at most MaxAsics entries
MaxAsics == 1
\* channels left open are counted up to MaxOpen
MaxOpen == 1

(***************************************************************************)
(* Values of the base class and of the collaborators that module.py names. *)
(***************************************************************************)
MODULE_TYPE_SUPERVISOR == "SUPERVISOR"
MODULE_TYPE_LINE == "LINE-CARD"
MODULE_TYPE_FABRIC == "FABRIC-CARD"
ModuleTypes == {MODULE_TYPE_SUPERVISOR, MODULE_TYPE_LINE, MODULE_TYPE_FABRIC}

MODULE_STATUS_EMPTY == "Empty"
MODULE_STATUS_ONLINE == "Online"
MODULE_STATUS_OFFLINE == "Offline"

NOKIA_INVALID_IP == "0.0.0.0"

HW_MODULE_TYPE_CONTROL == "HW_MODULE_TYPE_CONTROL"
HW_MODULE_TYPE_LINE == "HW_MODULE_TYPE_LINE"
HW_MODULE_TYPE_FABRIC == "HW_MODULE_TYPE_FABRIC"

HW_CHASSIS_TYPE_IXR6 == "HW_CHASSIS_TYPE_IXR6"
HW_CHASSIS_TYPE_IXR10 == "HW_CHASSIS_TYPE_IXR10"
ChassisTypes == {HW_CHASSIS_TYPE_IXR6, HW_CHASSIS_TYPE_IXR10}

NDK_SUCCESS == "NDK_SUCCESS"
NDK_ERR_FAILURE == "NDK_ERR_FAILURE"
NDK_ERR_RESOURCE_NOT_FOUND == "NDK_ERR_RESOURCE_NOT_FOUND"
ResponseCodes == {NDK_SUCCESS, NDK_ERR_FAILURE, NDK_ERR_RESOURCE_NOT_FOUND}

\* Python's None, and the marker of an attribute that was never assigned
None == "None"
NoAttribute == "<no attribute>"
AttributeError == "AttributeError"

(***************************************************************************)
(* DESCRIPTION_MAPPING, the whole table.                                   *)
(***************************************************************************)
DESCRIPTION_MAPPING ==
    [n \in {"imm32-100g-qsfp28+4-400g-qsfpdd", "cpm-ixr", "cpm2-ixr",
            "imm36-400g-qsfpdd", "imm60-100g-qsfp28", "cpm2-ixr-e", "cpm4-ixr"} |->
        CASE n = "imm32-100g-qsfp28+4-400g-qsfpdd" -> "Nokia-IXR7250-32x100G-4x400G"
          [] n = "cpm-ixr" -> "Nokia-IXR7250-SUP"
          [] n = "cpm2-ixr" -> "Nokia-IXR7250-SUP"
          [] n = "imm36-400g-qsfpdd" -> "Nokia-IXR7250E-36x400G"
          [] n = "imm60-100g-qsfp28" -> "Nokia-IXR7250E-60x100G"
          [] n = "cpm2-ixr-e" -> "Nokia-IXR7250E-SUP-10"
          [] n = "cpm4-ixr" -> "Nokia-IXR7250E-SUP-10"]

(***************************************************************************)
(* Inputs: constructor arguments and what the hardware daemon may answer.  *)
(***************************************************************************)
Slots == 0 .. MaxSlot
Indices == {0}
\* the slot of the host the process runs on
HostSlots == {0}
Powers == 0 .. MaxPower
RebootTypes == {"Default"}
\* raw names a GetModuleName response may carry: mapped ones and one that is not
RawNames == {"cpm2-ixr-e", "imm36-400g-qsfpdd", "imm99-unlisted"}
HwStatusCodes == {"HW_MODULE_STATUS_EMPTY", "HW_MODULE_STATUS_ONLINE", "HW_MODULE_STATUS_OFFLINE"}
MidplaneIPs == {"10.0.0.1", "10.0.0.2"}
AsicEntries == {[asic_idx |-> 0, asic_pcie_id |-> "pcie0"],
                [asic_idx |-> 1, asic_pcie_id |-> "pcie1"]}
AsicLists == UNION {[1 .. n -> AsicEntries] : n \in 0 .. MaxAsics}

\* channel_setup returns (channel, stub): no channel, a channel without a
\* stub, or both
ChannelSetups == {[channel |-> FALSE, stub |-> FALSE],
                  [channel |-> TRUE, stub |-> FALSE],
                  [channel |-> TRUE, stub |-> TRUE]}
NoResponse == "NoResponse"

\* what one call meets: the channel_setup result, try_grpc's ret and response
Env(Responses) ==
    {[setup |-> s, ret |-> FALSE, response |-> NoResponse] : s \in ChannelSetups}
    \cup {[setup |-> [channel |-> TRUE, stub |-> TRUE], ret |-> TRUE, response |-> r] :
            r \in Responses}

NameResponses == [name : RawNames, status_code : ResponseCodes]
StatusResponses == [status : HwStatusCodes, status_code : ResponseCodes]
RebootResponses == [status_code : ResponseCodes]
MidplaneIPResponses == [midplane_ip : MidplaneIPs, status_code : ResponseCodes]
ReachableResponses == [midplane_status : BOOLEAN, status_code : ResponseCodes]
PcieResponses == [asic_entry : AsicLists, status_code : ResponseCodes]

(***************************************************************************)
(* The state of one Module object, and of what surrounds it.               *)
(***************************************************************************)
VARIABLES
    module_index,        \* self.module_index
    module_name,         \* self.module_name
    module_type,         \* self.module_type
    hw_slot,             \* self.hw_slot
    my_slot,             \* nokia_common._get_my_slot() of the running host
    oper_status,         \* self.oper_status
    midplane_status,     \* self.midplane_status
    midplane_ip,         \* self.midplane_ip, NoAttribute until first assigned
    max_consumed_power,  \* self.max_consumed_power
    eeprom,              \* self.eeprom: None or "Eeprom"
    open_channels,       \* channels opened and not yet shut down
    hist,                \* history: what the last successful calls delivered
    last                 \* the call that has just returned

vars == <<module_index, module_name, module_type, hw_slot, my_slot, oper_status,
          midplane_status, midplane_ip, max_consumed_power, eeprom,
          open_channels, hist, last>>

identity == <<module_index, module_name, module_type, hw_slot, my_slot, eeprom,
              midplane_status>>

(***************************************************************************)
(* Collaborators of nokia_common, as far as module.py relies on them.      *)
(***************************************************************************)
\* translation of a response's status code to the base class's status string
hw_module_status_name(status) ==
    CASE status = "HW_MODULE_STATUS_EMPTY" -> MODULE_STATUS_EMPTY
      [] status = "HW_MODULE_STATUS_ONLINE" -> MODULE_STATUS_ONLINE
      [] status = "HW_MODULE_STATUS_OFFLINE" -> MODULE_STATUS_OFFLINE

\* Python's str() of a small non-negative integer
str_int(i) ==
    CASE i = 0 -> "0" [] i = 1 -> "1" [] i = 2 -> "2" [] i = 3 -> "3" [] i = 4 -> "4"
      [] i = 5 -> "5" [] i = 6 -> "6" [] i = 7 -> "7" [] i = 8 -> "8" [] i = 9 -> "9"

\* Python's str() of a string is the string
str_text(s) == s

\* the name the chassis gives a module: its type followed by its index; a name
\* is the sequence of its parts, "FABRIC-CARD0" being <<"FABRIC-CARD", "0">>
ModuleName(type, index) == <<type, str_int(index)>>

\* name.startswith(prefix), a name being the sequence of its parts
startswith(name, prefix) ==
    /\ Len(name) >= Len(prefix)
    /\ SubSeq(name, 1, Len(prefix)) = prefix

\* channels a channel_setup result leaves open
Opened(setup) == IF setup.channel THEN 1 ELSE 0

\* outcome of a method that made no channel_setup call
Local(result) ==
    [result |-> result, raised |-> FALSE, used |-> FALSE,
     opened |-> 0, closed |-> 0, rpcs |-> <<>>, refreshes |-> 0]

\* outcome of a method that called channel_setup
Remote(result, opened, closed, rpcs) ==
    [result |-> result, raised |-> FALSE, used |-> TRUE,
     opened |-> opened, closed |-> closed, rpcs |-> rpcs, refreshes |-> 0]

(***************************************************************************)
(* The methods of Module.  A method is an operator from what the call      *)
(* meets (e: channel_setup's result, try_grpc's ret and response) to its   *)
(* outcome: the value returned, the channels opened and shut down, the     *)
(* requests issued and the new values of the fields it assigns.            *)
(***************************************************************************)
get_name == module_name

get_type == module_type

_get_hw_slot == hw_slot

get_position_in_parent == hw_slot

is_replaceable == TRUE

get_platform_type ==
    IF get_type = MODULE_TYPE_SUPERVISOR THEN HW_MODULE_TYPE_CONTROL
    ELSE IF get_type = MODULE_TYPE_LINE THEN HW_MODULE_TYPE_LINE
    ELSE IF get_type = MODULE_TYPE_FABRIC THEN HW_MODULE_TYPE_FABRIC
    ELSE "Unknown card-type"

\* platform_ndk_pb2.ReqModuleInfoPb(module_type=..., hw_slot=...)
ReqTypeSlot(rpc) ==
    [rpc |-> rpc, module_type |-> get_platform_type, hw_slot |-> _get_hw_slot]

\* platform_ndk_pb2.ReqModuleInfoPb(hw_slot=...)
ReqSlot(rpc) == [rpc |-> rpc, hw_slot |-> _get_hw_slot]

\* variant: a failed refresh resets the cached status to Empty
get_oper_status_resets(e) ==
    IF ~e.setup.channel \/ ~e.setup.stub
    THEN [Remote(MODULE_STATUS_EMPTY, Opened(e.setup), 0, <<>>) EXCEPT !.refreshes = 1]
         @@ [oper_status |-> MODULE_STATUS_EMPTY]
    ELSE LET req == ReqTypeSlot("GetModuleStatus") IN
         IF e.ret = FALSE
         THEN [Remote(MODULE_STATUS_EMPTY, 1, 1, <<req>>) EXCEPT !.refreshes = 1]
              @@ [oper_status |-> MODULE_STATUS_EMPTY]
         ELSE LET new == hw_module_status_name(e.response.status) IN
              [Remote(new, 1, 1, <<req>>) EXCEPT !.refreshes = 1]
              @@ [oper_status |-> new]

get_oper_status(e) ==
    IF ~e.setup.channel \/ ~e.setup.stub
    THEN [Remote(oper_status, Opened(e.setup), 0, <<>>) EXCEPT !.refreshes = 1]
         @@ [oper_status |-> oper_status]
    ELSE LET req == ReqTypeSlot("GetModuleStatus") IN
         IF e.ret = FALSE
         THEN [Remote(oper_status, 1, 1, <<req>>) EXCEPT !.refreshes = 1]
              @@ [oper_status |-> oper_status]
         ELSE LET new == hw_module_status_name(e.response.status) IN
              [Remote(new, 1, 1, <<req>>) EXCEPT !.refreshes = 1]
              @@ [oper_status |-> new]

get_presence(e) ==
    LET o == get_oper_status(e) IN
    [o EXCEPT !.result = IF o.result = MODULE_STATUS_EMPTY THEN FALSE ELSE TRUE]

\* variant: get_status answers as get_presence does
get_status_as_presence(e) == get_presence(e)

get_status(e) ==
    LET o == get_oper_status(e) IN
    [o EXCEPT !.result = IF o.result = MODULE_STATUS_ONLINE THEN TRUE ELSE FALSE]

\* variant: the stored ceiling is returned whatever the status
get_maximum_consumed_power_unchecked(e) ==
    LET o == get_oper_status(e) IN [o EXCEPT !.result = max_consumed_power]

get_maximum_consumed_power(e) ==
    LET o == get_oper_status(e) IN
    [o EXCEPT !.result = IF o.result = MODULE_STATUS_EMPTY THEN 0
                         ELSE max_consumed_power]

set_maximum_consumed_power(consumed_power) ==
    Local(None) @@ [max_consumed_power |-> consumed_power]

set_admin_state(up) == Local(FALSE)

\* variant: a Supervisor gets the table's name, with no chassis disambiguation
get_description_undisambiguated(e, chassis_type) ==
    IF ~e.setup.channel \/ ~e.setup.stub
    THEN Remote("Unavailable", Opened(e.setup), 0, <<>>) @@ [chassis_queried |-> FALSE]
    ELSE LET req == ReqTypeSlot("GetModuleName") IN
         IF e.ret = FALSE
         THEN Remote("Unavailable", 1, 1, <<req>>) @@ [chassis_queried |-> FALSE]
         ELSE Remote(IF e.response.name \in DOMAIN DESCRIPTION_MAPPING
                     THEN DESCRIPTION_MAPPING[e.response.name]
                     ELSE e.response.name, 1, 1, <<req>>)
              @@ [chassis_queried |-> FALSE]

get_description(e, chassis_type) ==
    IF ~e.setup.channel \/ ~e.setup.stub
    THEN Remote("Unavailable", Opened(e.setup), 0, <<>>) @@ [chassis_queried |-> FALSE]
    ELSE LET platform_module_type == get_platform_type
             req == ReqTypeSlot("GetModuleName")
         IN
         IF e.ret = FALSE
         THEN Remote("Unavailable", 1, 1, <<req>>) @@ [chassis_queried |-> FALSE]
         ELSE IF e.response.name \in DOMAIN DESCRIPTION_MAPPING
              THEN IF platform_module_type = HW_MODULE_TYPE_CONTROL
                   THEN Remote(IF chassis_type = HW_CHASSIS_TYPE_IXR6
                               THEN "Nokia-IXR7250-SUP-6"
                               ELSE "Nokia-IXR7250-SUP-10", 1, 1, <<req>>)
                        @@ [chassis_queried |-> TRUE]
                   ELSE Remote(DESCRIPTION_MAPPING[e.response.name], 1, 1, <<req>>)
                        @@ [chassis_queried |-> FALSE]
              ELSE Remote(e.response.name, 1, 1, <<req>>)
                   @@ [chassis_queried |-> FALSE]

\* variant: the Fabric refusal is missing
reboot_fabric_too(e, reboot_type) ==
    IF my_slot # _get_hw_slot THEN Local(FALSE)
    ELSE IF ~e.setup.channel \/ ~e.setup.stub
    THEN Remote(FALSE, Opened(e.setup), 0, <<>>)
    ELSE LET req == ReqTypeSlot("RebootSlot") @@ [reboot_type |-> reboot_type] IN
         IF e.ret = FALSE THEN Remote(FALSE, 1, 1, <<req>>)
         ELSE IF e.response.status_code # NDK_SUCCESS THEN Remote(FALSE, 1, 1, <<req>>)
         ELSE Remote(TRUE, 1, 1, <<req>>)

reboot(e, reboot_type) ==
    IF get_type = MODULE_TYPE_FABRIC THEN Local(FALSE)
    ELSE IF my_slot # _get_hw_slot THEN Local(FALSE)
    ELSE IF ~e.setup.channel \/ ~e.setup.stub
    THEN Remote(FALSE, Opened(e.setup), 0, <<>>)
    ELSE LET req == ReqTypeSlot("RebootSlot") @@ [reboot_type |-> reboot_type] IN
         IF e.ret = FALSE THEN Remote(FALSE, 1, 1, <<req>>)
         ELSE IF e.response.status_code # NDK_SUCCESS THEN Remote(FALSE, 1, 1, <<req>>)
         ELSE Remote(TRUE, 1, 1, <<req>>)

\* "return self.midplane_ip": an attribute never assigned raises AttributeError
return_midplane_ip(opened, closed, rpcs) ==
    IF midplane_ip = NoAttribute
    THEN [Remote(AttributeError, opened, closed, rpcs) EXCEPT !.raised = TRUE]
    ELSE Remote(midplane_ip, opened, closed, rpcs)

\* variant: a failed query resets the cached address to the sentinel
get_midplane_ip_resets(e) ==
    IF ~e.setup.channel \/ ~e.setup.stub
    THEN Remote(NOKIA_INVALID_IP, Opened(e.setup), 0, <<>>)
         @@ [midplane_ip |-> NOKIA_INVALID_IP]
    ELSE LET req == ReqSlot("GetMidplaneIP") IN
         IF e.ret = FALSE
         THEN Remote(NOKIA_INVALID_IP, 1, 1, <<req>>) @@ [midplane_ip |-> NOKIA_INVALID_IP]
         ELSE Remote(e.response.midplane_ip, 1, 1, <<req>>)
              @@ [midplane_ip |-> e.response.midplane_ip]

get_midplane_ip(e) ==
    IF ~e.setup.channel \/ ~e.setup.stub
    THEN return_midplane_ip(Opened(e.setup), 0, <<>>) @@ [midplane_ip |-> midplane_ip]
    ELSE LET req == ReqSlot("GetMidplaneIP") IN
         IF e.ret = FALSE
         THEN return_midplane_ip(1, 1, <<req>>) @@ [midplane_ip |-> midplane_ip]
         ELSE Remote(e.response.midplane_ip, 1, 1, <<req>>)
              @@ [midplane_ip |-> e.response.midplane_ip]

is_midplane_reachable(e) ==
    IF ~e.setup.channel \/ ~e.setup.stub
    THEN Remote(FALSE, Opened(e.setup), 0, <<>>)
    ELSE LET req == ReqSlot("IsMidplaneReachable") IN
         IF e.ret = FALSE THEN Remote(FALSE, 1, 1, <<req>>)
         ELSE Remote(e.response.midplane_status, 1, 1, <<req>>)

\* the Eeprom object's answers are opaque values, never None
eeprom_read(what) == IF eeprom # None THEN <<"Eeprom", what>> ELSE None

get_model == eeprom_read("part_number")

get_serial == eeprom_read("serial_number")

get_base_mac == eeprom_read("base_mac")

get_system_eeprom_info == eeprom_read("system_eeprom_info")

\* variant: every status code other than success empties the result
get_all_asics_any_error(e) ==
    IF startswith(get_name, <<MODULE_TYPE_FABRIC>>)
    THEN IF ~e.setup.channel \/ ~e.setup.stub
         THEN Remote(<<>>, Opened(e.setup), 0, <<>>)
         ELSE LET req == ReqSlot("GetFabricPcieInfo") IN
              IF e.ret = FALSE THEN Remote(<<>>, 1, 1, <<req>>)
              ELSE IF e.response.status_code # NDK_SUCCESS
              THEN Remote(<<>>, 1, 1, <<req>>)
              ELSE Remote([i \in 1 .. Len(e.response.asic_entry) |->
                             <<str_int(e.response.asic_entry[i].asic_idx),
                               str_text(e.response.asic_entry[i].asic_pcie_id)>>],
                          1, 1, <<req>>)
    ELSE Local(<<>>)

get_all_asics(e) ==
    IF startswith(get_name, <<MODULE_TYPE_FABRIC>>)
    THEN IF ~e.setup.channel \/ ~e.setup.stub
         THEN Remote(<<>>, Opened(e.setup), 0, <<>>)
         ELSE LET req == ReqSlot("GetFabricPcieInfo") IN
              IF e.ret = FALSE THEN Remote(<<>>, 1, 1, <<req>>)
              ELSE IF e.response.status_code = NDK_ERR_RESOURCE_NOT_FOUND
              THEN Remote(<<>>, 1, 1, <<req>>)
              ELSE Remote([i \in 1 .. Len(e.response.asic_entry) |->
                             <<str_int(e.response.asic_entry[i].asic_idx),
                               str_text(e.response.asic_entry[i].asic_pcie_id)>>],
                          1, 1, <<req>>)
    ELSE Local(<<>>)

(***************************************************************************)
(* Construction.                                                           *)
(***************************************************************************)
\* the input of a call that never reaches channel_setup
NoEnv == [setup |-> [channel |-> FALSE, stub |-> FALSE], ret |-> FALSE,
          response |-> NoResponse]

\* variant: the Eeprom reader is attached whatever the slot
Construct_eeprom_always(index, name, type, module_slot, host_slot) ==
    /\ module_index = index
    /\ module_name = name
    /\ module_type = type
    /\ hw_slot = module_slot
    /\ my_slot = host_slot
    /\ oper_status = MODULE_STATUS_EMPTY
    /\ midplane_status = NOKIA_INVALID_IP
    /\ midplane_ip = NoAttribute
    /\ max_consumed_power = 0
    /\ eeprom = "Eeprom"

\* Module.__init__(module_index, module_name, module_type, module_slot, stub)
\* on a host whose own slot is host_slot
Construct(index, name, type, module_slot, host_slot) ==
    /\ module_index = index
    /\ module_name = name
    /\ module_type = type
    /\ hw_slot = module_slot
    /\ my_slot = host_slot
    /\ oper_status = MODULE_STATUS_EMPTY
    /\ midplane_status = NOKIA_INVALID_IP
    /\ midplane_ip = NoAttribute
    /\ max_consumed_power = 0
    /\ eeprom = IF host_slot = module_slot THEN "Eeprom" ELSE None

Init ==
    /\ \E index \in Indices, type \in ModuleTypes,
          module_slot \in Slots, host_slot \in HostSlots :
            Construct(index, ModuleName(type, index), type, module_slot, host_slot)
    /\ open_channels = 0
    /\ hist = [status |-> MODULE_STATUS_EMPTY, ip |-> None, power |-> 0]
    /\ last = [op |-> "__init__", arg |-> None, env |-> NoEnv, used |-> FALSE,
               result |-> None, raised |-> FALSE, opened |-> 0, closed |-> 0,
               rpcs |-> <<>>, refreshes |-> 0]

(***************************************************************************)
(* Calls.  Return(op, arg, e, o) records the call that returned with       *)
(* outcome o and accounts for the channels it opened and shut down.        *)
(***************************************************************************)
Return(op, arg, e, o) ==
    /\ open_channels + o.opened - o.closed <= MaxOpen
    /\ open_channels' = open_channels + o.opened - o.closed
    /\ last' = [op |-> op, arg |-> arg, env |-> IF o.used THEN e ELSE NoEnv,
                used |-> o.used, result |-> o.result, raised |-> o.raised, opened |-> o.opened,
                closed |-> o.closed, rpcs |-> o.rpcs, refreshes |-> o.refreshes]

\* the history of the status: what the last successful GetModuleStatus said
Refreshed(e) ==
    IF e.ret THEN [hist EXCEPT !.status = hw_module_status_name(e.response.status)]
    ELSE hist

Call_get_name ==
    /\ Return("get_name", None, NoEnv, Local(get_name))
    /\ UNCHANGED <<identity, oper_status, midplane_ip, max_consumed_power, hist>>

Call_get_type ==
    /\ Return("get_type", None, NoEnv, Local(get_type))
    /\ UNCHANGED <<identity, oper_status, midplane_ip, max_consumed_power, hist>>

Call_get_position_in_parent ==
    /\ Return("get_position_in_parent", None, NoEnv, Local(get_position_in_parent))
    /\ UNCHANGED <<identity, oper_status, midplane_ip, max_consumed_power, hist>>

Call_is_replaceable ==
    /\ Return("is_replaceable", None, NoEnv, Local(is_replaceable))
    /\ UNCHANGED <<identity, oper_status, midplane_ip, max_consumed_power, hist>>

Call_get_oper_status ==
    \E e \in Env(StatusResponses) :
        LET o == get_oper_status(e) IN
        /\ Return("get_oper_status", None, e, o)
        /\ oper_status' = o.oper_status
        /\ hist' = Refreshed(e)
        /\ UNCHANGED <<identity, midplane_ip, max_consumed_power>>

Call_get_presence ==
    \E e \in Env(StatusResponses) :
        LET o == get_presence(e) IN
        /\ Return("get_presence", None, e, o)
        /\ oper_status' = o.oper_status
        /\ hist' = Refreshed(e)
        /\ UNCHANGED <<identity, midplane_ip, max_consumed_power>>

Call_get_status ==
    \E e \in Env(StatusResponses) :
        LET o == get_status(e) IN
        /\ Return("get_status", None, e, o)
        /\ oper_status' = o.oper_status
        /\ hist' = Refreshed(e)
        /\ UNCHANGED <<identity, midplane_ip, max_consumed_power>>

Call_get_maximum_consumed_power ==
    \E e \in Env(StatusResponses) :
        LET o == get_maximum_consumed_power(e) IN
        /\ Return("get_maximum_consumed_power", None, e, o)
        /\ oper_status' = o.oper_status
        /\ hist' = Refreshed(e)
        /\ UNCHANGED <<identity, midplane_ip, max_consumed_power>>

Call_set_maximum_consumed_power ==
    \E consumed_power \in Powers :
        LET o == set_maximum_consumed_power(consumed_power) IN
        /\ Return("set_maximum_consumed_power", consumed_power, NoEnv, o)
        /\ max_consumed_power' = o.max_consumed_power
        /\ hist' = [hist EXCEPT !.power = consumed_power]
        /\ UNCHANGED <<identity, oper_status, midplane_ip>>

Call_set_admin_state ==
    \E up \in BOOLEAN :
        /\ Return("set_admin_state", up, NoEnv, set_admin_state(up))
        /\ UNCHANGED <<identity, oper_status, midplane_ip, max_consumed_power, hist>>

Call_get_description ==
    \E e \in Env(NameResponses), chassis_type \in ChassisTypes :
        LET o == get_description(e, chassis_type) IN
        /\ Return("get_description",
                  IF o.chassis_queried THEN chassis_type ELSE None, e, o)
        /\ UNCHANGED <<identity, oper_status, midplane_ip, max_consumed_power, hist>>

Call_reboot ==
    \E e \in Env(RebootResponses), reboot_type \in RebootTypes :
        /\ Return("reboot", reboot_type, e, reboot(e, reboot_type))
        /\ UNCHANGED <<identity, oper_status, midplane_ip, max_consumed_power, hist>>

Call_get_midplane_ip ==
    \E e \in Env(MidplaneIPResponses) :
        LET o == get_midplane_ip(e) IN
        /\ Return("get_midplane_ip", None, e, o)
        /\ midplane_ip' = o.midplane_ip
        /\ hist' = IF e.ret THEN [hist EXCEPT !.ip = e.response.midplane_ip] ELSE hist
        /\ UNCHANGED <<identity, oper_status, max_consumed_power>>

Call_is_midplane_reachable ==
    \E e \in Env(ReachableResponses) :
        /\ Return("is_midplane_reachable", None, e, is_midplane_reachable(e))
        /\ UNCHANGED <<identity, oper_status, midplane_ip, max_consumed_power, hist>>

Call_get_model ==
    /\ Return("get_model", None, NoEnv, Local(get_model))
    /\ UNCHANGED <<identity, oper_status, midplane_ip, max_consumed_power, hist>>

Call_get_serial ==
    /\ Return("get_serial", None, NoEnv, Local(get_serial))
    /\ UNCHANGED <<identity, oper_status, midplane_ip, max_consumed_power, hist>>

Call_get_base_mac ==
    /\ Return("get_base_mac", None, NoEnv, Local(get_base_mac))
    /\ UNCHANGED <<identity, oper_status, midplane_ip, max_consumed_power, hist>>

Call_get_system_eeprom_info ==
    /\ Return("get_system_eeprom_info", None, NoEnv, Local(get_system_eeprom_info))
    /\ UNCHANGED <<identity, oper_status, midplane_ip, max_consumed_power, hist>>

Call_get_all_asics ==
    \E e \in Env(PcieResponses) :
        /\ Return("get_all_asics", None, e, get_all_asics(e))
        /\ UNCHANGED <<identity, oper_status, midplane_ip, max_consumed_power, hist>>

Next ==
    \/ Call_get_name
    \/ Call_get_type
    \/ Call_get_position_in_parent
    \/ Call_is_replaceable
    \/ Call_get_oper_status
    \/ Call_get_presence
    \/ Call_get_status
    \/ Call_get_maximum_consumed_power
    \/ Call_set_maximum_consumed_power
    \/ Call_set_admin_state
    \/ Call_get_description
    \/ Call_reboot
    \/ Call_get_midplane_ip
    \/ Call_is_midplane_reachable
    \/ Call_get_model
    \/ Call_get_serial
    \/ Call_get_base_mac
    \/ Call_get_system_eeprom_info
    \/ Call_get_all_asics

Spec == Init /\ [][Next]_vars

(***************************************************************************)
(* Properties.  In every one, "last" is the call that has just returned:   *)
(* last.env is what it met, last.result what it returned, last.raised      *)
(* whether an exception left it, and hist what the last successful calls   *)
(* delivered.                                                              *)
(***************************************************************************)
\* the call made the RPC and try_grpc reported success
RpcSucceeded == last.used /\ last.env.ret

\* the call reached channel_setup and either got no usable channel/stub pair
\* or try_grpc reported failure
RpcFailed == last.used /\ ~last.env.ret

\* the RPC completed and its response carries an application-level error
SemanticFailure ==
    RpcSucceeded /\ last.env.response.status_code # NDK_SUCCESS

StatusOps == {"get_oper_status", "get_presence", "get_status",
              "get_maximum_consumed_power"}

\* the description a successful name lookup is documented to give
ExpectedDescription(raw, kind, chassis) ==
    IF raw \notin DOMAIN DESCRIPTION_MAPPING THEN raw
    ELSE IF kind # MODULE_TYPE_SUPERVISOR THEN DESCRIPTION_MAPPING[raw]
    ELSE IF chassis = HW_CHASSIS_TYPE_IXR6 THEN "Nokia-IXR7250-SUP-6"
    ELSE "Nokia-IXR7250-SUP-10"

\* the (asicIndex, asicPcieId) string pairs of a response, in response order
ExpectedAsics(entries) ==
    [i \in 1 .. Len(entries) |->
        <<CASE entries[i].asic_idx = 0 -> "0" [] entries[i].asic_idx = 1 -> "1",
          entries[i].asic_pcie_id>>]

\* C1: when the connection cannot be established or the GetMidplaneIP RPC
\* fails, get_midplane_ip returns normally: the address of the last successful
\* get_midplane_ip, or the invalid-address sentinel if none succeeded since
\* construction; no exception reaches the caller.
C1_MidplaneIpFallback ==
    (last.op = "get_midplane_ip" /\ RpcFailed) =>
        /\ ~last.raised
        /\ last.result = IF hist.ip = None THEN NOKIA_INVALID_IP ELSE hist.ip

\* C2: after any sequence of calls no channel is open: every channel a call
\* opened was shut down before it returned, and a call opens at most one
\* channel and issues at most one request.
C2_NoOpenChannel ==
    /\ open_channels = 0
    /\ last.closed = last.opened
    /\ last.opened <= 1
    /\ Len(last.rpcs) <= 1

\* C3: get_oper_status returns, when the connection or the RPC fails, the
\* status of the most recent successful refresh (Empty if none) and leaves the
\* cache at that value; when the RPC succeeds the cache holds the translated
\* response status and that value is returned.
C3_OperStatusCache ==
    last.op = "get_oper_status" =>
        /\ RpcFailed => /\ last.result = hist.status
                        /\ oper_status = hist.status
        /\ RpcSucceeded =>
              /\ oper_status = hw_module_status_name(last.env.response.status)
              /\ last.result = oper_status

\* C3 happens: Online is cached and a call with the service unreachable
\* answers Online
C3_Witness ==
    /\ last.op = "get_oper_status"
    /\ RpcFailed
    /\ ~last.env.setup.channel
    /\ hist.status = MODULE_STATUS_ONLINE
    /\ last.result = MODULE_STATUS_ONLINE

\* C4: reboot returns false with no connection and no RPC when the kind is
\* Fabric or the slot is not the host's; a RebootSlot request comes only from
\* a non-Fabric accessor on the host's slot; reboot returns true only if the
\* connection was established, the RPC succeeded and the status code is
\* success.
C4_RebootGuard ==
    /\ last.op = "reboot" =>
        /\ (module_type = MODULE_TYPE_FABRIC \/ hw_slot # my_slot) =>
              /\ last.result = FALSE
              /\ ~last.used
              /\ last.opened = 0
              /\ last.rpcs = <<>>
        /\ last.result = TRUE =>
              /\ last.env.setup.channel
              /\ last.env.setup.stub
              /\ last.env.ret
              /\ last.env.response.status_code = NDK_SUCCESS
    /\ \A i \in 1 .. Len(last.rpcs) :
          last.rpcs[i].rpc = "RebootSlot" =>
              /\ last.op = "reboot"
              /\ module_type # MODULE_TYPE_FABRIC
              /\ hw_slot = my_slot

\* C4 happens: a Fabric accessor on the host's own slot is asked to reboot
C4_Witness ==
    /\ last.op = "reboot"
    /\ module_type = MODULE_TYPE_FABRIC
    /\ hw_slot = my_slot
    /\ last.result = FALSE
    /\ ~last.used

\* C5, as claimed: a response whose status code signals an application-level
\* error makes every RPC-backed accessor return what it returns when the
\* transport or the RPC fails, and overwrites no cached field.
C5_SemanticFailureAsTransport ==
    [][(last'.used /\ last'.env.ret
        /\ last'.env.response.status_code # NDK_SUCCESS) =>
          /\ last'.op = "get_description" => last'.result = "Unavailable"
          /\ last'.op = "get_oper_status" =>
                last'.result = oper_status /\ oper_status' = oper_status
          /\ last'.op = "get_midplane_ip" =>
                last'.result = midplane_ip /\ midplane_ip' = midplane_ip
          /\ last'.op = "is_midplane_reachable" => last'.result = FALSE
          /\ last'.op = "reboot" => last'.result = FALSE
          /\ last'.op = "get_all_asics" => last'.result = <<>>]_vars

\* C5, amended: an application-level error status code is honoured by reboot
\* (false for every code but success) and by get_all_asics (empty for
\* resource-not-found only; for generic failure the pairs of the response's
\* entries); get_description, get_oper_status, get_midplane_ip and
\* is_midplane_reachable never read the code and answer, and cache, as on
\* success.
C5_SemanticFailureHandling ==
    SemanticFailure =>
        /\ last.op = "reboot" => last.result = FALSE
        /\ last.op = "get_all_asics" =>
              last.result =
                  IF last.env.response.status_code = NDK_ERR_RESOURCE_NOT_FOUND
                  THEN <<>>
                  ELSE ExpectedAsics(last.env.response.asic_entry)
        /\ last.op = "get_description" =>
              last.result =
                  ExpectedDescription(last.env.response.name, module_type, last.arg)
        /\ last.op = "get_oper_status" =>
              /\ oper_status = hw_module_status_name(last.env.response.status)
              /\ last.result = oper_status
        /\ last.op = "get_midplane_ip" =>
              /\ midplane_ip = last.env.response.midplane_ip
              /\ last.result = midplane_ip
        /\ last.op = "is_midplane_reachable" =>
              last.result = last.env.response.midplane_status

\* C5 happens: a generic-failure response to get_all_asics carries an entry
C5_Witness ==
    /\ last.op = "get_all_asics"
    /\ SemanticFailure
    /\ last.env.response.status_code = NDK_ERR_FAILURE
    /\ last.env.response.asic_entry = <<[asic_idx |-> 1, asic_pcie_id |-> "pcie1"]>>
    /\ last.result = <<<<"1", "pcie1">>>>

\* C6: get_maximum_consumed_power returns 0 when the status its own refresh
\* obtained is Empty, whatever was stored, and otherwise the value of the most
\* recent set_maximum_consumed_power (0 if never set), which stores its
\* argument verbatim without any RPC.
C6_MaximumConsumedPower ==
    /\ last.op = "get_maximum_consumed_power" =>
          /\ last.refreshes = 1
          /\ last.result = IF oper_status = MODULE_STATUS_EMPTY THEN 0
                           ELSE hist.power
    /\ last.op = "set_maximum_consumed_power" =>
          /\ max_consumed_power = last.arg
          /\ ~last.used
          /\ last.rpcs = <<>>

\* C6 happens: a ceiling above 0 was stored and the status is Empty
C6_Witness ==
    /\ last.op = "get_maximum_consumed_power"
    /\ oper_status = MODULE_STATUS_EMPTY
    /\ hist.power > 0
    /\ last.result = 0

\* C7: get_description returns "Unavailable" when the connection or the RPC
\* fails; otherwise the raw name if the table lacks it, the table's name for a
\* kind other than Supervisor, and for a Supervisor "Nokia-IXR7250-SUP-6" on
\* an IXR6 chassis and "Nokia-IXR7250-SUP-10" on any other.
C7_Description ==
    last.op = "get_description" =>
        /\ RpcFailed => last.result = "Unavailable"
        /\ RpcSucceeded =>
              last.result =
                  ExpectedDescription(last.env.response.name, module_type, last.arg)

\* C7 happens: "cpm2-ixr-e" on a Supervisor of an IXR6 chassis
C7_Witness ==
    /\ last.op = "get_description"
    /\ RpcSucceeded
    /\ last.env.response.name = "cpm2-ixr-e"
    /\ module_type = MODULE_TYPE_SUPERVISOR
    /\ last.arg = HW_CHASSIS_TYPE_IXR6
    /\ last.result = "Nokia-IXR7250-SUP-6"

\* C8: the EEPROM handle is present exactly when the hardware slot is the
\* host's slot, get_model, get_serial, get_base_mac and get_system_eeprom_info
\* return an absent result exactly for the other accessors, and no step adds
\* or removes the handle.
C8_EepromHandle ==
    /\ [](/\ (eeprom # None) <=> (hw_slot = my_slot)
          /\ last.op \in {"get_model", "get_serial", "get_base_mac",
                          "get_system_eeprom_info"} =>
                ((last.result = None) <=> (hw_slot # my_slot)))
    /\ [][eeprom' = eeprom]_vars

\* C8 happens: get_model on an accessor of another slot
C8_Witness ==
    /\ last.op = "get_model"
    /\ hw_slot # my_slot
    /\ last.result = None

\* C9: get_presence and get_status make one get_oper_status refresh and no
\* other RPC; get_presence is false exactly when the refreshed status is
\* Empty, get_status true exactly when it is Online; with the service
\* unreachable the status is the cached one.
C9_PresenceAndStatus ==
    last.op \in {"get_presence", "get_status"} =>
        /\ last.refreshes = 1
        /\ Len(last.rpcs) <= 1
        /\ \A i \in 1 .. Len(last.rpcs) : last.rpcs[i].rpc = "GetModuleStatus"
        /\ RpcFailed => oper_status = hist.status
        /\ RpcSucceeded =>
              oper_status = hw_module_status_name(last.env.response.status)
        /\ last.op = "get_presence" =>
              (last.result = FALSE <=> oper_status = MODULE_STATUS_EMPTY)
        /\ last.op = "get_status" =>
              (last.result = TRUE <=> oper_status = MODULE_STATUS_ONLINE)

\* C9 happens: the service is unreachable, Offline is cached, and get_status
\* answers false where get_presence would answer true
C9_Witness ==
    /\ last.op = "get_status"
    /\ RpcFailed
    /\ oper_status = MODULE_STATUS_OFFLINE
    /\ last.result = FALSE

\* C10: the cached status changes only in a step whose GetModuleStatus RPC
\* succeeded, the cached midplane address only in a successful
\* get_midplane_ip, the power ceiling only in set_maximum_consumed_power;
\* set_admin_state (always false), reboot, is_midplane_reachable,
\* get_description and get_all_asics change none of them; index, name, kind
\* and hardware slot never change.
C10_Frame ==
    [][/\ oper_status' # oper_status =>
            /\ last'.op \in StatusOps
            /\ last'.env.ret
            /\ last'.rpcs = <<[rpc |-> "GetModuleStatus",
                               module_type |-> get_platform_type,
                               hw_slot |-> hw_slot]>>
       /\ midplane_ip' # midplane_ip =>
            /\ last'.op = "get_midplane_ip"
            /\ last'.env.ret
       /\ max_consumed_power' # max_consumed_power =>
            last'.op = "set_maximum_consumed_power"
       /\ last'.op \in {"set_admin_state", "reboot", "is_midplane_reachable",
                        "get_description", "get_all_asics"} =>
            UNCHANGED <<oper_status, midplane_ip, max_consumed_power>>
       /\ last'.op = "set_admin_state" => last'.result = FALSE
       /\ UNCHANGED <<module_index, module_name, module_type, hw_slot>>]_vars

\* C10 happens: set_admin_state is called once every cached field has left
\* its default
C10_Witness ==
    /\ last.op = "set_admin_state"
    /\ oper_status = MODULE_STATUS_ONLINE
    /\ midplane_ip \in MidplaneIPs
    /\ max_consumed_power > 0

====
